---- MODULE Spec2Model ----
(* The collapsible navigation Sidebar: the three versions of the component   *)
(* (react-components/Sidebar/Sidebar.tsx and the two unnamed sources), its   *)
(* ancestor search, its render / effect cycle and the 'sidebar_collapsed'    *)
(* key of localStorage.                                                      *)
EXTENDS Integers, Sequences, FiniteSets, TLC

VARIABLES
    variant,        \* which source file the mounted component comes from
    menuItems,      \* prop menuItems
    currentPath,    \* prop currentPath
    pc,             \* position in the render / effect cycle
    collapsed,      \* useState collapsed
    expandedItems,  \* useState expandedItems
    memo,           \* useMemo value of the ancestor search, as of the last render
    depPath,        \* currentPath the last render saw (dependency of memo and effect)
    storage,        \* localStorage, a function from the keys present to strings
    navCalls,       \* calls of the onNavigate prop not yet handled by the parent
    savedPref,      \* history: value the last toggleCollapse stored on a top-level path
    since,          \* history: what happened since that toggleCollapse
    toggled,        \* history: toggleCollapse ran since the sync effect last ran
    menuChanged,    \* the menuItems prop is another array than the last render saw
    steps,          \* history: renders and effect runs since the last event
    last            \* history: the last handler run and the state it started from

vars == <<variant, menuItems, currentPath, pc, collapsed, expandedItems, memo,
          depPath, storage, navCalls, savedPref, since, toggled, menuChanged,
          steps, last>>

-----------------------------------------------------------------------------
(* Menu data *)

\* interface MenuItem with subItems present
Item(id, path, subItems) ==
    [id |-> id, path |-> path, defined |-> TRUE, subItems |-> subItems]

\* interface MenuItem with the optional subItems left out
Leaf(id, path) ==
    [id |-> id, path |-> path, defined |-> FALSE, subItems |-> <<>>]

Variants == {"Sidebar.tsx", "part_000", "part_001"}

\* a three-level menu with distinct paths, one empty subItems list
AdminMenu ==
    << Leaf("dashboard", "/"),
       Item("users", "/users",
            << Leaf("list", "/users/list"),
               Item("roles", "/users/roles", << Leaf("edit", "/users/roles/edit") >>) >>),
       Item("settings", "/settings", <<>>) >>

\* a menu in which two sub-items of different parents share a path
SharedPathMenu ==
    << Item("b", "/b", << Leaf("c", "/c") >>),
       Item("d", "/d", << Leaf("e", "/c") >>),
       Leaf("f", "/f") >>

MenuTrees == {AdminMenu, SharedPathMenu}

RECURSIVE PathsOf(_)
PathsOf(items) ==
    UNION { {items[i].path} \cup PathsOf(items[i].subItems) : i \in DOMAIN items }

NoPath == ""
UnknownPath == "/missing"

\* the values the parent may pass as currentPath
NavPaths(items) == PathsOf(items) \cup {UnknownPath}

-----------------------------------------------------------------------------
(* localStorage *)

Key == "sidebar_collapsed"
Null == "null"

getItem(store, k) == IF k \in DOMAIN store THEN store[k] ELSE Null
setItem(store, k, v) == [x \in DOMAIN store \cup {k} |-> IF x = k THEN v ELSE store[x]]
removeItem(store, k) == [x \in DOMAIN store \ {k} |-> store[x]]

\* String(b) of a boolean
StringOf(b) == IF b THEN "true" ELSE "false"

EmptyStore == [x \in {} |-> ""]
InitialStores ==
    {EmptyStore} \cup { setItem(EmptyStore, Key, v) : v \in {"true", "false", "1"} }

-----------------------------------------------------------------------------
(* The ancestor search *)

includes(seq, x) == \E i \in DOMAIN seq : seq[i] = x

\* findPath with the matching item's own id pushed after its ancestors
RECURSIVE findPathSelf(_, _, _)
findPathSelf(items, targetPath, parentIds) ==
    IF items = <<>> THEN [found |-> FALSE, expanded |-> <<>>]
    ELSE LET item == Head(items) IN
         IF item.path = targetPath
         THEN [found |-> TRUE, expanded |-> Append(parentIds, item.id)]
         ELSE LET sub == IF item.defined
                         THEN findPathSelf(item.subItems, targetPath, Append(parentIds, item.id))
                         ELSE [found |-> FALSE, expanded |-> <<>>]
              IN IF sub.found THEN sub
                 ELSE findPathSelf(Tail(items), targetPath, parentIds)

\* findPath of Sidebar.tsx and part_001: stops at the first match
RECURSIVE findPath(_, _, _)
findPath(items, targetPath, parentIds) ==
    IF items = <<>> THEN [found |-> FALSE, expanded |-> <<>>]
    ELSE LET item == Head(items) IN
         IF item.path = targetPath
         THEN [found |-> TRUE, expanded |-> parentIds]
         ELSE LET sub == IF item.defined
                         THEN findPath(item.subItems, targetPath, Append(parentIds, item.id))
                         ELSE [found |-> FALSE, expanded |-> <<>>]
              IN IF sub.found THEN sub
                 ELSE findPath(Tail(items), targetPath, parentIds)

findExpandedItems(items, targetPath) == findPath(items, targetPath, <<>>).expanded

\* findPath of part_000: returns nothing, so a match in a sub-list ends only
\* the loop over that sub-list; the value is the pushes made onto expanded
RECURSIVE findPathVoid(_, _, _)
findPathVoid(items, targetPath, parentIds) ==
    IF items = <<>> THEN <<>>
    ELSE LET item == Head(items) IN
         IF item.path = targetPath
         THEN parentIds
         ELSE (IF item.defined
               THEN findPathVoid(item.subItems, targetPath, Append(parentIds, item.id))
               ELSE <<>>)
              \o findPathVoid(Tail(items), targetPath, parentIds)

getExpandedItemsForPath(items, path) == findPathVoid(items, path, <<>>)

-----------------------------------------------------------------------------
(* Rendering *)

\* hasSubItems without the length test
hasSubItemsAnyList(item) == item.defined

hasSubItems(item) == item.defined /\ Len(item.subItems) > 0

isExpanded(itemId) == includes(expandedItems, itemId)

\* the items renderMenuItem puts on screen
RECURSIVE Rendered(_)
Rendered(items) ==
    UNION { {items[i]} \cup
            (IF hasSubItems(items[i]) /\ isExpanded(items[i].id) /\ ~collapsed
             THEN Rendered(items[i].subItems) ELSE {}) : i \in DOMAIN items }

\* toggleExpand taking out the first occurrence only
toggleExpandFirst(prev, itemId) ==
    IF includes(prev, itemId)
    THEN LET i == CHOOSE k \in DOMAIN prev :
                      prev[k] = itemId /\ \A j \in 1..(k - 1) : prev[j] # itemId
         IN SubSeq(prev, 1, i - 1) \o SubSeq(prev, i + 1, Len(prev))
    ELSE Append(prev, itemId)

toggleExpand(prev, itemId) ==
    IF includes(prev, itemId)
    THEN SelectSeq(prev, LAMBDA id : id # itemId)
    ELSE Append(prev, itemId)

-----------------------------------------------------------------------------
(* Independent description of the tree, used by the properties *)

RECURSIVE Positions(_)
Positions(items) ==
    UNION { {<<i>>} \cup { <<i>> \o q : q \in Positions(items[i].subItems) }
            : i \in DOMAIN items }

RECURSIVE ItemAt(_, _)
ItemAt(items, pos) ==
    IF Len(pos) = 1 THEN items[pos[1]]
    ELSE ItemAt(items[pos[1]].subItems, Tail(pos))

Matches(items, path) == { p \in Positions(items) : ItemAt(items, p).path = path }

IsPrefix(p, q) == Len(p) < Len(q) /\ SubSeq(q, 1, Len(p)) = p

\* p comes before q in depth-first pre-order
Before(p, q) ==
    \/ IsPrefix(p, q)
    \/ \E i \in 1..Len(p) :
          /\ i <= Len(q)
          /\ SubSeq(p, 1, i - 1) = SubSeq(q, 1, i - 1)
          /\ p[i] < q[i]

IdsAbove(items, p) == [k \in 1..(Len(p) - 1) |-> ItemAt(items, SubSeq(p, 1, k)).id]

\* ids of the proper ancestors of the first item whose path is the given one
AncestorChain(items, path) ==
    LET m == Matches(items, path) IN
    IF m = {} THEN <<>>
    ELSE IdsAbove(items, CHOOSE p \in m : \A q \in m \ {p} : Before(p, q))

DistinctPaths(items) ==
    \A p, q \in Positions(items) :
        ItemAt(items, p).path = ItemAt(items, q).path => p = q

OnNestedPath == AncestorChain(menuItems, currentPath) # <<>>

AllIds(items) == { ItemAt(items, p).id : p \in Positions(items) }

-----------------------------------------------------------------------------
(* The component *)

ExpandedFor(v, items, path) ==
    IF v = "part_000" THEN getExpandedItemsForPath(items, path)
    ELSE findExpandedItems(items, path)

\* history: the handler that runs now, and the state it starts from
Record(op, id, path, sub) ==
    [op |-> op, id |-> id, path |-> path, sub |-> sub, first |-> pc = "mounted",
     collapsed |-> collapsed, expandedItems |-> expandedItems,
     storage |-> storage, navCalls |-> navCalls,
     shown |-> Rendered(menuItems), twice |-> FALSE, before |-> <<>>]

Init ==
    /\ variant \in Variants
    /\ menuItems \in MenuTrees
    /\ storage \in InitialStores
    /\ currentPath = NoPath
    /\ depPath = NoPath
    /\ pc = "unmounted"
    /\ collapsed = FALSE
    /\ expandedItems = <<>>
    /\ memo = <<>>
    /\ navCalls = <<>>
    /\ savedPref = "none"
    /\ since = "other"
    /\ toggled = FALSE
    /\ menuChanged = FALSE
    /\ steps = 0
    /\ last = Record("none", "", "", FALSE)

\* history kept by a first render
MountHistory(p) ==
    /\ last' = Record("mount", "", p, FALSE)
    /\ toggled' = FALSE
    /\ steps' = 0
    /\ UNCHANGED <<savedPref, since>>

\* first render of Sidebar.tsx taking any stored value for 'collapsed'
MountSidebarAnyValue(p) ==
    /\ pc = "unmounted"
    /\ variant = "Sidebar.tsx"
    /\ currentPath' = p
    /\ depPath' = p
    /\ memo' = findExpandedItems(menuItems, p)
    /\ collapsed' = (Len(findExpandedItems(menuItems, p)) = 0
                     /\ getItem(storage, Key) # Null)
    /\ expandedItems' = memo'
    /\ pc' = "mounted"
    /\ MountHistory(p)
    /\ menuChanged' = FALSE
    /\ UNCHANGED <<variant, menuItems, storage, navCalls>>

\* first render of Sidebar.tsx that never reads the stored value
MountSidebarOpen(p) ==
    /\ pc = "unmounted"
    /\ variant = "Sidebar.tsx"
    /\ currentPath' = p
    /\ depPath' = p
    /\ memo' = findExpandedItems(menuItems, p)
    /\ collapsed' = FALSE
    /\ expandedItems' = memo'
    /\ pc' = "mounted"
    /\ MountHistory(p)
    /\ menuChanged' = FALSE
    /\ UNCHANGED <<variant, menuItems, storage, navCalls>>

\* first render of Sidebar.tsx: useMemo and the useState initialisers
MountSidebar(p) ==
    /\ pc = "unmounted"
    /\ variant = "Sidebar.tsx"
    /\ currentPath' = p
    /\ depPath' = p
    /\ memo' = findExpandedItems(menuItems, p)
    /\ collapsed' = (Len(findExpandedItems(menuItems, p)) = 0
                     /\ getItem(storage, Key) = "true")
    /\ expandedItems' = memo'
    /\ pc' = "mounted"
    /\ MountHistory(p)
    /\ menuChanged' = FALSE
    /\ UNCHANGED <<variant, menuItems, storage, navCalls>>

\* first render of part_000
MountPart000(p) ==
    /\ pc = "unmounted"
    /\ variant = "part_000"
    /\ currentPath' = p
    /\ depPath' = p
    /\ memo' = getExpandedItemsForPath(menuItems, p)
    /\ collapsed' = IF Len(getExpandedItemsForPath(menuItems, p)) > 0
                    THEN FALSE
                    ELSE getItem(storage, Key) = "true"
    /\ expandedItems' = memo'
    /\ pc' = "mounted"
    /\ MountHistory(p)
    /\ menuChanged' = FALSE
    /\ UNCHANGED <<variant, menuItems, storage, navCalls>>

\* first render of part_001: starts closed with nothing expanded
MountPart001(p) ==
    /\ pc = "unmounted"
    /\ variant = "part_001"
    /\ currentPath' = p
    /\ depPath' = p
    /\ memo' = findExpandedItems(menuItems, p)
    /\ collapsed' = TRUE
    /\ expandedItems' = <<>>
    /\ pc' = "mounted"
    /\ MountHistory(p)
    /\ menuChanged' = FALSE
    /\ UNCHANGED <<variant, menuItems, storage, navCalls>>

EffectPending == pc \in {"mounted", "effect"}

\* cap on the length of one render / effect cycle
MaxSteps == 6

\* useMemo and the effect compare currentPath and the menuItems array with
\* the ones of the last render
DepsChanged == currentPath # depPath \/ menuChanged

\* a re-render that computes the ancestor chain afresh, without useMemo, so
\* that the effect sees a new array every time
RenderNoMemo ==
    /\ pc \in {"render", "synced"}
    /\ steps < MaxSteps
    /\ memo' = ExpandedFor(variant, menuItems, currentPath)
    /\ depPath' = currentPath
    /\ menuChanged' = FALSE
    /\ pc' = "effect"
    /\ steps' = steps + 1
    /\ UNCHANGED <<variant, menuItems, currentPath, collapsed, expandedItems,
                   storage, navCalls, savedPref, since, toggled, last>>

\* history kept by an effect run: an effect on a nested path is an
\* auto-open, and the effect that follows a mount ends the
\* toggle / unmount / mount sequence
EffectHistory ==
    /\ last' = Record("effect", "", currentPath, FALSE)
    /\ since' = IF OnNestedPath THEN "autoOpened"
                ELSE IF pc = "mounted" /\ since = "nothing" THEN "other"
                ELSE since
    /\ toggled' = FALSE
    /\ steps' = steps + 1
    /\ UNCHANGED savedPref

\* useEffect of Sidebar.tsx adding the ancestors to what is expanded already
EffectSidebarMerge ==
    /\ EffectPending
    /\ steps < MaxSteps
    /\ variant = "Sidebar.tsx"
    /\ expandedItems' = expandedItems \o SelectSeq(memo, LAMBDA id : ~includes(expandedItems, id))
    /\ IF Len(memo) > 0
       THEN /\ collapsed' = FALSE
            /\ storage' = removeItem(storage, Key)
       ELSE UNCHANGED <<collapsed, storage>>
    /\ pc' = "synced"
    /\ EffectHistory
    /\ UNCHANGED menuChanged
    /\ UNCHANGED <<variant, menuItems, currentPath, memo, depPath, navCalls>>

\* useEffect of Sidebar.tsx without setCollapsed(false)
EffectSidebarNoOpen ==
    /\ EffectPending
    /\ steps < MaxSteps
    /\ variant = "Sidebar.tsx"
    /\ expandedItems' = memo
    /\ storage' = IF Len(memo) > 0 THEN removeItem(storage, Key) ELSE storage
    /\ pc' = "synced"
    /\ EffectHistory
    /\ UNCHANGED menuChanged
    /\ UNCHANGED <<variant, menuItems, currentPath, collapsed, memo, depPath, navCalls>>

\* useEffect of Sidebar.tsx reading the stored value as part_001 does
EffectSidebarReadsStore ==
    /\ EffectPending
    /\ steps < MaxSteps
    /\ variant = "Sidebar.tsx"
    /\ expandedItems' = memo
    /\ IF Len(memo) > 0
       THEN /\ collapsed' = FALSE
            /\ storage' = removeItem(storage, Key)
       ELSE /\ collapsed' = (getItem(storage, Key) = "true")
            /\ UNCHANGED storage
    /\ pc' = "synced"
    /\ EffectHistory
    /\ UNCHANGED menuChanged
    /\ UNCHANGED <<variant, menuItems, currentPath, memo, depPath, navCalls>>

\* useEffect of Sidebar.tsx
EffectSidebar ==
    /\ EffectPending
    /\ steps < MaxSteps
    /\ variant = "Sidebar.tsx"
    /\ expandedItems' = memo
    /\ IF Len(memo) > 0
       THEN /\ collapsed' = FALSE
            /\ storage' = removeItem(storage, Key)
       ELSE UNCHANGED <<collapsed, storage>>
    /\ pc' = "synced"
    /\ EffectHistory
    /\ UNCHANGED menuChanged
    /\ UNCHANGED <<variant, menuItems, currentPath, memo, depPath, navCalls>>

\* useEffect of part_000 without setCollapsed(false)
EffectPart000NoOpen ==
    /\ EffectPending
    /\ steps < MaxSteps
    /\ variant = "part_000"
    /\ expandedItems' = getExpandedItemsForPath(menuItems, currentPath)
    /\ pc' = "synced"
    /\ EffectHistory
    /\ UNCHANGED menuChanged
    /\ UNCHANGED <<variant, menuItems, currentPath, collapsed, memo, depPath,
                   storage, navCalls>>

\* useEffect of part_000 clearing the key as the later versions do
EffectPart000Clear ==
    /\ EffectPending
    /\ steps < MaxSteps
    /\ variant = "part_000"
    /\ LET newExpanded == getExpandedItemsForPath(menuItems, currentPath) IN
       /\ expandedItems' = newExpanded
       /\ collapsed' = IF Len(newExpanded) > 0 THEN FALSE ELSE collapsed
       /\ storage' = IF Len(newExpanded) > 0 THEN removeItem(storage, Key) ELSE storage
    /\ pc' = "synced"
    /\ EffectHistory
    /\ UNCHANGED menuChanged
    /\ UNCHANGED <<variant, menuItems, currentPath, memo, depPath, navCalls>>

\* useEffect of part_000
EffectPart000 ==
    /\ EffectPending
    /\ steps < MaxSteps
    /\ variant = "part_000"
    /\ LET newExpanded == getExpandedItemsForPath(menuItems, currentPath) IN
       /\ expandedItems' = newExpanded
       /\ collapsed' = IF Len(newExpanded) > 0 THEN FALSE ELSE collapsed
    /\ pc' = "synced"
    /\ EffectHistory
    /\ UNCHANGED menuChanged
    /\ UNCHANGED <<variant, menuItems, currentPath, memo, depPath, storage, navCalls>>

\* useLayoutEffect of part_001 without removeItem
EffectPart001KeepKey ==
    /\ EffectPending
    /\ steps < MaxSteps
    /\ variant = "part_001"
    /\ expandedItems' = memo
    /\ collapsed' = IF Len(memo) > 0 THEN FALSE ELSE getItem(storage, Key) = "true"
    /\ pc' = "synced"
    /\ EffectHistory
    /\ UNCHANGED menuChanged
    /\ UNCHANGED <<variant, menuItems, currentPath, memo, depPath, storage, navCalls>>

\* useLayoutEffect of part_001
EffectPart001 ==
    /\ EffectPending
    /\ steps < MaxSteps
    /\ variant = "part_001"
    /\ expandedItems' = memo
    /\ IF Len(memo) > 0
       THEN /\ collapsed' = FALSE
            /\ storage' = removeItem(storage, Key)
       ELSE /\ collapsed' = (getItem(storage, Key) = "true")
            /\ UNCHANGED storage
    /\ pc' = "synced"
    /\ EffectHistory
    /\ UNCHANGED menuChanged
    /\ UNCHANGED <<variant, menuItems, currentPath, memo, depPath, navCalls>>

\* a re-render after a state update or a change of props: useMemo recomputes
\* when currentPath changed, and the effect is scheduled when its
\* dependencies changed
Render ==
    /\ pc \in {"render", "synced"}
    /\ steps < MaxSteps
    /\ memo' = IF DepsChanged
               THEN ExpandedFor(variant, menuItems, currentPath)
               ELSE memo
    /\ depPath' = currentPath
    /\ menuChanged' = FALSE
    /\ pc' = IF DepsChanged THEN "effect" ELSE "idle"
    /\ steps' = steps + 1
    /\ UNCHANGED <<variant, menuItems, currentPath, collapsed, expandedItems,
                   storage, navCalls, savedPref, since, toggled, last>>

\* history kept by toggleCollapse
ToggleHistory ==
    /\ last' = IF last.op = "toggleCollapse"
               THEN [Record("toggleCollapse", "", currentPath, FALSE) EXCEPT
                        !.twice = TRUE,
                        !.before = [collapsed |-> last.collapsed,
                                    expandedItems |-> last.expandedItems,
                                    shown |-> last.shown]]
               ELSE Record("toggleCollapse", "", currentPath, FALSE)
    /\ savedPref' = IF OnNestedPath THEN "none" ELSE StringOf(~collapsed)
    /\ since' = IF OnNestedPath THEN "other" ELSE "nothing"
    /\ toggled' = TRUE
    /\ steps' = 0

\* toggleCollapse of Sidebar.tsx storing the value before the toggle
ToggleCollapseSidebarStale ==
    /\ pc = "idle"
    /\ variant = "Sidebar.tsx"
    /\ collapsed' = ~collapsed
    /\ storage' = IF Len(memo) > 0
                  THEN removeItem(storage, Key)
                  ELSE setItem(storage, Key, StringOf(collapsed))
    /\ pc' = "render"
    /\ ToggleHistory
    /\ UNCHANGED menuChanged
    /\ UNCHANGED <<variant, menuItems, currentPath, expandedItems, memo, depPath, navCalls>>

\* toggleCollapse of Sidebar.tsx folding every sub-menu when it collapses
ToggleCollapseSidebarFold ==
    /\ pc = "idle"
    /\ variant = "Sidebar.tsx"
    /\ LET newCollapsed == ~collapsed IN
       /\ collapsed' = newCollapsed
       /\ expandedItems' = IF newCollapsed THEN <<>> ELSE expandedItems
       /\ storage' = IF Len(memo) > 0
                     THEN removeItem(storage, Key)
                     ELSE setItem(storage, Key, StringOf(newCollapsed))
    /\ pc' = "render"
    /\ ToggleHistory
    /\ UNCHANGED menuChanged
    /\ UNCHANGED <<variant, menuItems, currentPath, memo, depPath, navCalls>>

\* toggleCollapse of Sidebar.tsx
ToggleCollapseSidebar ==
    /\ pc = "idle"
    /\ variant = "Sidebar.tsx"
    /\ LET newCollapsed == ~collapsed IN
       /\ collapsed' = newCollapsed
       /\ storage' = IF Len(memo) > 0
                     THEN removeItem(storage, Key)
                     ELSE setItem(storage, Key, StringOf(newCollapsed))
    /\ pc' = "render"
    /\ ToggleHistory
    /\ UNCHANGED menuChanged
    /\ UNCHANGED <<variant, menuItems, currentPath, expandedItems, memo, depPath, navCalls>>

\* toggleCollapse of part_000
ToggleCollapsePart000 ==
    /\ pc = "idle"
    /\ variant = "part_000"
    /\ LET newCollapsed == ~collapsed IN
       /\ collapsed' = newCollapsed
       /\ storage' = IF ~(Len(memo) > 0)
                     THEN setItem(storage, Key, StringOf(newCollapsed))
                     ELSE IF newCollapsed THEN removeItem(storage, Key)
                     ELSE storage
    /\ pc' = "render"
    /\ ToggleHistory
    /\ UNCHANGED menuChanged
    /\ UNCHANGED <<variant, menuItems, currentPath, expandedItems, memo, depPath, navCalls>>

\* toggleCollapse of part_001
ToggleCollapsePart001 ==
    /\ pc = "idle"
    /\ variant = "part_001"
    /\ LET newCollapsed == ~collapsed IN
       /\ collapsed' = newCollapsed
       /\ storage' = IF Len(memo) > 0
                     THEN removeItem(storage, Key)
                     ELSE setItem(storage, Key, StringOf(newCollapsed))
    /\ pc' = "render"
    /\ ToggleHistory
    /\ UNCHANGED menuChanged
    /\ UNCHANGED <<variant, menuItems, currentPath, expandedItems, memo, depPath, navCalls>>

MaxCalls == 1

\* history kept by anything else the user or the parent does
OtherHistory(op, id, path, sub) ==
    /\ last' = Record(op, id, path, sub)
    /\ since' = IF since = "nothing" THEN "other" ELSE since
    /\ steps' = 0
    /\ UNCHANGED <<savedPref, toggled>>

\* onClick of a rendered menu item
Click(item) ==
    /\ pc = "idle"
    /\ item \in Rendered(menuItems)
    /\ IF hasSubItems(item)
       THEN /\ expandedItems' = toggleExpand(expandedItems, item.id)
            /\ pc' = "render"
            /\ UNCHANGED navCalls
       ELSE /\ Len(navCalls) < MaxCalls
            /\ navCalls' = Append(navCalls, item.path)
            /\ UNCHANGED <<expandedItems, pc>>
    /\ OtherHistory("click", item.id, item.path, item.defined /\ item.subItems # <<>>)
    /\ UNCHANGED menuChanged
    /\ UNCHANGED <<variant, menuItems, currentPath, collapsed, memo, depPath, storage>>

\* the parent re-renders the component with a currentPath of its choice
Navigate(p) ==
    /\ pc = "idle"
    /\ currentPath' = p
    /\ navCalls' = <<>>
    /\ pc' = "render"
    /\ OtherHistory("navigate", "", p, FALSE)
    /\ UNCHANGED menuChanged
    /\ UNCHANGED <<variant, menuItems, collapsed, expandedItems, memo, depPath, storage>>

\* the component is removed: its state is gone, localStorage stays
Unmount ==
    /\ pc = "idle"
    /\ pc' = "unmounted"
    /\ currentPath' = NoPath
    /\ depPath' = NoPath
    /\ collapsed' = FALSE
    /\ expandedItems' = <<>>
    /\ memo' = <<>>
    /\ navCalls' = <<>>
    /\ last' = Record("unmount", "", "", FALSE)
    /\ toggled' = FALSE
    /\ menuChanged' = FALSE
    /\ steps' = 0
    /\ UNCHANGED <<variant, menuItems, storage, savedPref, since>>

AllItems(items) == { ItemAt(items, p) : p \in Positions(items) }

Next ==
    \/ \E p \in NavPaths(menuItems) : MountSidebar(p)
    \/ \E p \in NavPaths(menuItems) : MountPart000(p)
    \/ \E p \in NavPaths(menuItems) : MountPart001(p)
    \/ EffectSidebar
    \/ EffectPart000
    \/ EffectPart001
    \/ Render
    \/ ToggleCollapseSidebar
    \/ ToggleCollapsePart000
    \/ ToggleCollapsePart001
    \/ \E item \in AllItems(menuItems) : Click(item)
    \/ \E p \in NavPaths(menuItems) : Navigate(p)
    \/ Unmount

Spec == Init /\ [][Next]_vars

\* the parent re-renders the component with another menuItems array, of the
\* same or of other content
ChangeMenu(m) ==
    /\ pc = "idle"
    /\ menuItems' = m
    /\ menuChanged' = TRUE
    /\ pc' = "render"
    /\ OtherHistory("changeMenu", "", currentPath, FALSE)
    /\ UNCHANGED <<variant, currentPath, collapsed, expandedItems, memo, depPath,
                   storage, navCalls>>

\* Sidebar.tsx alone, its menuItems prop changing as well
InitCycle == Init /\ variant = "Sidebar.tsx"

NextCycle ==
    \/ \E p \in NavPaths(menuItems) : MountSidebar(p)
    \/ EffectSidebar
    \/ Render
    \/ ToggleCollapseSidebar
    \/ \E item \in AllItems(menuItems) : Click(item)
    \/ \E p \in NavPaths(menuItems) : Navigate(p)
    \/ \E m \in MenuTrees : ChangeMenu(m)
    \/ Unmount

SpecCycle == InitCycle /\ [][NextCycle]_vars

\* the stored values String(collapsed) can produce, and no value at all
BooleanStores ==
    {EmptyStore} \cup { setItem(EmptyStore, Key, StringOf(b)) : b \in BOOLEAN }

\* the component started with a key that only it has written
InitOwnKey == Init /\ storage \in BooleanStores

SpecOwnKey == InitOwnKey /\ [][Next]_vars

-----------------------------------------------------------------------------
(* The ancestor search on its own: every menu of at most MaxNodes items *)

MaxNodes == 4

GenPaths == {"/a", "/b", "/c"}

RECURSIVE ForestsN(_, _), TreesN(_, _)
\* the menus of exactly n items, ids numbered in pre-order after base
ForestsN(n, base) ==
    IF n = 0 THEN {<<>>}
    ELSE UNION { LET first == TreesN(k, base)
                     rest == ForestsN(n - k, base + k)
                 IN { <<t>> \o r : t \in first, r \in rest }
                 : k \in 1..n }
TreesN(k, base) ==
    IF k = 1
    THEN { Leaf(ToString(base + 1), p) : p \in GenPaths }
    ELSE LET below == ForestsN(k - 1, base + 1)
         IN { Item(ToString(base + 1), p, f) : p \in GenPaths, f \in below }

\* the generated menus, and the two menus the component is run on
GenMenus == UNION { ForestsN(n, 0) : n \in 0..MaxNodes } \cup MenuTrees

InitFind ==
    /\ variant \in {"Sidebar.tsx"}
    /\ menuItems \in GenMenus
    /\ currentPath \in GenPaths \cup NavPaths(menuItems)
    /\ depPath = NoPath
    /\ pc = "call"
    /\ collapsed = FALSE
    /\ expandedItems = <<>>
    /\ memo = <<>>
    /\ storage = EmptyStore
    /\ navCalls = <<>>
    /\ savedPref = "none"
    /\ since = "other"
    /\ toggled = FALSE
    /\ menuChanged = FALSE
    /\ steps = 0
    /\ last = Record("none", "", "", FALSE)

\* one call of findExpandedItems(menuItems, currentPath)
CallFind ==
    /\ pc = "call"
    /\ memo' = findExpandedItems(menuItems, currentPath)
    /\ pc' = "returned"
    /\ UNCHANGED <<variant, menuItems, currentPath, collapsed, expandedItems,
                   depPath, storage, navCalls, savedPref, since, toggled,
                   menuChanged, steps, last>>

\* one call of getExpandedItemsForPath(menuItems, currentPath) of part_000
\* on the same arguments
CallGet ==
    /\ pc = "returned"
    /\ expandedItems' = getExpandedItemsForPath(menuItems, currentPath)
    /\ pc' = "both"
    /\ UNCHANGED <<variant, menuItems, currentPath, collapsed, memo,
                   depPath, storage, navCalls, savedPref, since, toggled,
                   menuChanged, steps, last>>

NextFind == CallFind \/ CallGet

SpecFind == InitFind /\ [][NextFind]_vars

-----------------------------------------------------------------------------
(* toggleExpand on its own: every list of at most MaxLen ids, repeats included *)

MaxLen == 3

ToggleIds == {"x", "y", "z"}

SeqsUpTo(S, n) == UNION { [1..k -> S] : k \in 0..n }

InitToggle ==
    /\ variant = "Sidebar.tsx"
    /\ menuItems = <<>>
    /\ currentPath = NoPath
    /\ depPath = NoPath
    /\ pc = "call"
    /\ collapsed = FALSE
    /\ expandedItems \in SeqsUpTo(ToggleIds, MaxLen)
    /\ memo = <<>>
    /\ storage = EmptyStore
    /\ navCalls = <<>>
    /\ savedPref = "none"
    /\ since = "other"
    /\ toggled = FALSE
    /\ menuChanged = FALSE
    /\ steps = 0
    /\ \E itemId \in ToggleIds : last = Record("none", itemId, "", TRUE)

\* toggleExpand(last.id), called a first and a second time
CallToggleExpand ==
    /\ pc \in {"call", "once"}
    /\ expandedItems' = toggleExpand(expandedItems, last.id)
    /\ pc' = IF pc = "call" THEN "once" ELSE "twice"
    /\ last' = IF pc = "call"
               THEN Record("toggleExpand", last.id, "", TRUE)
               ELSE [Record("toggleExpand", last.id, "", TRUE) EXCEPT
                        !.twice = TRUE,
                        !.before = [collapsed |-> last.collapsed,
                                    expandedItems |-> last.expandedItems,
                                    shown |-> last.shown]]
    /\ UNCHANGED <<variant, menuItems, currentPath, collapsed, memo, depPath,
                   storage, navCalls, savedPref, since, toggled, menuChanged, steps>>

\* the component, and toggleExpand on arbitrary lists beside it
NextExpand == Next \/ CallToggleExpand

SpecExpand == (Init \/ InitToggle) /\ [][NextExpand]_vars

-----------------------------------------------------------------------------
(* Properties *)

\* C1: for a menu whose item paths are all distinct, findExpandedItems returns
\* the ids of the proper ancestors of the item whose path is currentPath, from
\* the top-level ancestor down to the direct parent, and the empty list when
\* no item matches or the matching item is a top-level item.
C1_AncestorChain ==
    (pc = "returned" /\ DistinctPaths(menuItems)) =>
        /\ memo = AncestorChain(menuItems, currentPath)
        /\ (Matches(menuItems, currentPath) = {} => memo = <<>>)
        /\ (\A p \in Matches(menuItems, currentPath) : Len(p) = 1 => memo = <<>>)

\* a match two levels down, behind items that do not match, was found: both
\* ancestors, outermost first
C1_Witness ==
    /\ pc = "returned"
    /\ DistinctPaths(menuItems)
    /\ \E p \in Matches(menuItems, currentPath) :
          /\ Len(p) = 3
          /\ p[1] > 1
          /\ memo = <<ItemAt(menuItems, <<p[1]>>).id, ItemAt(menuItems, <<p[1], p[2]>>).id>>

\* a top-level item with sub-items of its own matches: nothing is returned
C1_WitnessTop ==
    /\ pc = "returned"
    /\ DistinctPaths(menuItems)
    /\ \E p \in Matches(menuItems, currentPath) :
          Len(p) = 1 /\ hasSubItems(ItemAt(menuItems, p))
    /\ memo = <<>>

\* the state right after the path-sync effect has run
Synced == pc = "synced"

\* the state as seen once the path-sync effect has run
Settled == pc \in {"synced", "idle"}

StoredTrue(store) == getItem(store, Key) = "true"

\* C2: after a mount on, or a change of currentPath to, a path whose matching
\* item has an ancestor, the sidebar is open once the sync effect has run,
\* whatever collapsed and the stored value were before.
C2_ForcedOpen ==
    (Synced /\ OnNestedPath) => ~collapsed

\* the effect opened a sidebar that was collapsed while the key held 'true'
C2_Witness ==
    /\ Synced
    /\ OnNestedPath
    /\ last.op = "effect"
    /\ last.collapsed
    /\ StoredTrue(last.storage)
    /\ ~collapsed

C4_RoundTrip ==
    (/\ variant = "Sidebar.tsx"
     /\ pc = "mounted"
     /\ since = "nothing"
     /\ savedPref # "none"
     /\ ~OnNestedPath) => (collapsed <=> savedPref = "true")

\* the user collapsed the sidebar and the next mount starts collapsed
C4_Witness ==
    /\ variant = "Sidebar.tsx"
    /\ pc = "mounted"
    /\ since = "nothing"
    /\ savedPref = "true"
    /\ ~OnNestedPath
    /\ collapsed

\* C5: a mount of Sidebar.tsx (and of part_000) on a path without ancestor
\* chain starts collapsed exactly when the stored value is the string 'true',
\* and neither the mount nor its effect changes the stored value.
C5_MountReadsPreference ==
    (variant \in {"Sidebar.tsx", "part_000"} /\ ~OnNestedPath) =>
        /\ (pc = "mounted" =>
               /\ last.op = "mount"
               /\ collapsed <=> StoredTrue(last.storage)
               /\ storage = last.storage)
        /\ ((Synced /\ last.first) =>
               /\ collapsed = last.collapsed
               /\ storage = last.storage)

\* a stored 'true' gave a collapsed first render, the key untouched
C5_Witness ==
    /\ variant = "Sidebar.tsx"
    /\ pc = "mounted"
    /\ ~OnNestedPath
    /\ StoredTrue(storage)
    /\ collapsed

C7_ExpandedIsChain ==
    (variant = "Sidebar.tsx" /\ Synced) =>
        /\ expandedItems = findExpandedItems(menuItems, currentPath)
        /\ \A id \in AllIds(menuItems) :
              includes(expandedItems, id)
                  <=> includes(AncestorChain(menuItems, currentPath), id)

\* the effect re-expanded 'users', which the user had collapsed, and dropped
\* 'roles', which is not above the new path
C7_Witness ==
    /\ variant = "Sidebar.tsx"
    /\ Synced
    /\ last.op = "effect"
    /\ last.expandedItems = <<"roles">>
    /\ expandedItems = <<"users">>

\* C8: a click on an item with a non-empty subItems list toggles that id in
\* expandedItems and does not call onNavigate; a click on an item with no or
\* an empty subItems list calls onNavigate once with the item's path and
\* leaves expandedItems alone; no click changes collapsed or the stored value.
C8_ClickContract ==
    (last.op = "click") =>
        /\ collapsed = last.collapsed
        /\ storage = last.storage
        /\ (last.sub =>
               /\ includes(expandedItems, last.id) <=> ~includes(last.expandedItems, last.id)
               /\ \A id \in AllIds(menuItems) \ {last.id} :
                     includes(expandedItems, id) <=> includes(last.expandedItems, id)
               /\ navCalls = last.navCalls)
        /\ (~last.sub =>
               /\ navCalls = Append(last.navCalls, last.path)
               /\ expandedItems = last.expandedItems)

\* the item with an empty subItems list was clicked: one onNavigate call
C8_Witness ==
    /\ last.op = "click"
    /\ last.id = "settings"
    /\ last.navCalls = <<>>
    /\ navCalls = <<"/settings">>

\* C9: in Sidebar.tsx (and part_001), in every state seen after the sync
\* effect has run, the key 'sidebar_collapsed' is absent when currentPath
\* matches an item that has an ancestor.
C9_NoKeyOnNestedPath ==
    (variant \in {"Sidebar.tsx", "part_001"} /\ Settled /\ OnNestedPath) =>
        Key \notin DOMAIN storage

\* a mount on a nested path while the key held 'true': the effect removed it
C9_Witness ==
    /\ variant = "Sidebar.tsx"
    /\ Synced
    /\ OnNestedPath
    /\ last.op = "effect"
    /\ last.first
    /\ StoredTrue(last.storage)
    /\ Key \notin DOMAIN storage

\* C10: in part_000 a mount, a change of currentPath and the effect leave the
\* stored value as it was, so the value a toggleCollapse stored on a top-level
\* path is what a later mount on a top-level path reads.
C10_AutoOpenKeepsKey ==
    (variant = "part_000") =>
        /\ (last.op \in {"mount", "navigate", "effect"} => storage = last.storage)
        /\ ((pc = "mounted" /\ ~OnNestedPath /\ savedPref # "none") =>
               (collapsed <=> savedPref = "true"))

\* collapsed on a top-level path, auto-opened on a nested one, mounted again
\* on a top-level path: still collapsed
C10_Witness ==
    /\ variant = "part_000"
    /\ pc = "mounted"
    /\ ~OnNestedPath
    /\ savedPref = "true"
    /\ since = "autoOpened"
    /\ StoredTrue(storage)
    /\ collapsed

\* C11: in Sidebar.tsx, when the key starts absent, 'true' or 'false' and only
\* the component writes it, a key that is present after the sync effect has
\* run holds String(collapsed).
C11_StoredAgreesWithShown ==
    (variant = "Sidebar.tsx" /\ Settled /\ Key \in DOMAIN storage) =>
        storage[Key] = StringOf(collapsed)

\* the user collapsed the sidebar on a top-level path: 'true' is stored
C11_Witness ==
    /\ variant = "Sidebar.tsx"
    /\ pc = "idle"
    /\ last.op = "toggleCollapse"
    /\ ~last.collapsed
    /\ collapsed
    /\ getItem(storage, Key) = "true"

TopLevel(items) == { items[i] : i \in DOMAIN items }

\* C12: toggleCollapse flips collapsed and leaves expandedItems alone; two
\* toggleCollapse calls with no other handler in between bring back collapsed,
\* expandedItems and the items on screen; while collapsed only the top-level
\* items are rendered, whatever expandedItems holds.
C12_ToggleCollapseKeepsExpanded ==
    /\ (last.op = "toggleCollapse" =>
           /\ expandedItems = last.expandedItems
           /\ collapsed = ~last.collapsed)
    /\ ((last.op = "toggleCollapse" /\ last.twice) =>
           /\ collapsed = last.before.collapsed
           /\ expandedItems = last.before.expandedItems
           /\ Rendered(menuItems) = last.before.shown)
    /\ (collapsed => Rendered(menuItems) = TopLevel(menuItems))

\* collapsed and opened again with two sub-menus expanded: the sub-items
\* that were hidden in between are back on screen
C12_Witness ==
    /\ variant = "Sidebar.tsx"
    /\ last.op = "toggleCollapse"
    /\ last.twice
    /\ ~collapsed
    /\ expandedItems = <<"users", "roles">>
    /\ last.shown = TopLevel(menuItems)
    /\ Rendered(menuItems) = AllItems(menuItems)

ToSet(seq) == { seq[i] : i \in DOMAIN seq }

NoRepeats(seq) == \A i, j \in DOMAIN seq : seq[i] = seq[j] => i = j

UniqueIds(items) ==
    \A p, q \in Positions(items) : ItemAt(items, p).id = ItemAt(items, q).id => p = q

\* C13: toggleExpand(id) flips whether id is in the list and leaves every
\* other id's membership alone, and a second toggleExpand(id) gives back the
\* same set of ids; in the component (Sidebar.tsx and part_001) on a menu
\* with unique ids, expandedItems never holds an id twice.
C13_ToggleExpandInvolution ==
    /\ (pc \in {"once", "twice"} =>
           /\ includes(expandedItems, last.id) <=> ~includes(last.expandedItems, last.id)
           /\ \A id \in ToggleIds \ {last.id} :
                 includes(expandedItems, id) <=> includes(last.expandedItems, id))
    /\ (pc = "twice" => ToSet(expandedItems) = ToSet(last.before.expandedItems))
    /\ ((/\ pc \notin {"call", "once", "twice"}
         /\ variant \in {"Sidebar.tsx", "part_001"}
         /\ UniqueIds(menuItems)) => NoRepeats(expandedItems))

\* x was in the list twice: the first call takes out both, the second puts
\* one back, and the set of ids is what it was
C13_Witness ==
    /\ pc = "twice"
    /\ last.id = "x"
    /\ last.before.expandedItems = <<"x", "y", "x">>
    /\ last.expandedItems = <<"y">>
    /\ expandedItems = <<"y", "x">>

\* C14: on every menu, menus with shared paths included, and every path,
\* getExpandedItemsForPath of part_000 returns what findExpandedItems of
\* Sidebar.tsx returns: the ancestor chain of the first matching item in
\* depth-first pre-order.
C14_SearchesAgree ==
    (pc = "both") =>
        /\ expandedItems = memo
        /\ expandedItems = AncestorChain(menuItems, currentPath)

CycleRunning == pc \in {"mounted", "render", "effect", "synced"}

\* C15: in Sidebar.tsx, after a mount, a change of currentPath or menuItems, a toggleCollapse
\* or a toggleExpand, with the props then held fixed, the render / effect
\* cycle is idle after at most three steps and can always take its next step;
\* the effect runs at most once, scheduled by the first render after the
\* event, and never after a toggleCollapse or toggleExpand, whose update
\* stands.
C15_CycleSettles ==
    /\ steps <= 3
    /\ (CycleRunning => ENABLED (Render \/ EffectSidebar))
    /\ (pc = "effect" => steps = 1)
    /\ (pc = "synced" => steps <= 2)
    /\ (last.op = "toggleCollapse" =>
           /\ pc \in {"render", "idle"}
           /\ collapsed = ~last.collapsed)
    /\ ((last.op = "click" /\ last.sub) =>
           /\ pc \in {"render", "idle"}
           /\ includes(expandedItems, last.id) <=> ~includes(last.expandedItems, last.id))

\* the menu was replaced while the path stayed: render, effect, render, idle
C15_Witness ==
    /\ variant = "Sidebar.tsx"
    /\ pc = "idle"
    /\ steps = 3
    /\ last.op = "effect"
    /\ menuItems = SharedPathMenu
    /\ currentPath = "/users/list"
    /\ currentPath = depPath
    /\ ~menuChanged

====
